---- MODULE Spec2Model ----
(***************************************************************************)
(* Model of the Jira -> Yandex Tracker migration tool                      *)
(* (src/src/__main__.py, src/src/field_mapper.py).                         *)
(*                                                                         *)
(* The run driver, the per-issue convergence, the link establisher and the *)
(* retry decorator are modelled as one sequential process whose position   *)
(* is `pc`; the two trackers are modelled by the state they hold.          *)
(***************************************************************************)
EXTENDS Integers, Sequences, FiniteSets, TLC

(***************************************************************************)
(* Bounds of the model.                                                    *)
(***************************************************************************)
\* highest issue number of the destination queue that the model lets exist
MaxKey == 3
\* number of outages of the remote services in one behaviour
MaxFaults == 1
\* number of successive runs of the program in one behaviour
MaxRuns == 2

(***************************************************************************)
(* Program constants.                                                      *)
(***************************************************************************)
\* RETRY_KWARGS["stop"] = stop_after_attempt(3)
MaxAttempts == 3
DEFAULT_ISSUE_TITLE == "[JIRA2YT] WIP"
CONVERGE_ISSUES == "converge_issues"
ESTABLISH_LINKS_ONLY == "establish_links_only"

None == "None"

(***************************************************************************)
(* Strings.  Python's str.lower() and the concatenation  s + "Meta"  are   *)
(* modelled over the finite universe of strings the model uses.            *)
(***************************************************************************)
lower_identity(s) == s

lower(s) ==
    CASE s = "Bug" -> "bug"
      [] s = "BUG" -> "bug"
      [] s = "Epic" -> "epic"
      [] s = "Task" -> "task"
      [] s = "Open" -> "open"
      [] s = "OPEN" -> "open"
      [] s = "Done" -> "done"
      [] s = "Weird" -> "weird"
      [] s = "High" -> "high"
      [] s = "Odd" -> "odd"
      [] s = "Blocks" -> "blocks"
      [] s = "Clones" -> "clones"
      [] s = "Ann" -> "ann"
      [] s = "Bob" -> "bob"
      [] s = "Zed" -> "zed"
      [] OTHER -> s

\* s + "Meta"
AppendMeta(s) ==
    CASE s = "open" -> "openMeta"
      [] s = "closed" -> "closedMeta"
      [] s = "inProgress" -> "inProgressMeta"
      [] OTHER -> "otherMeta"

(***************************************************************************)
(* Python dicts are functions with a finite domain.                        *)
(***************************************************************************)
EmptyDict == [x \in {} |-> None]

DictSet(d, k, v) == [x \in (DOMAIN d) \cup {k} |-> IF x = k THEN v ELSE d[x]]

\* dict.get(k): None when the key is absent
DictGet(d, k) == IF k \in DOMAIN d THEN d[k] ELSE None

(***************************************************************************)
(* Field mapper (field_mapper.py).                                         *)
(***************************************************************************)
SectionNames == {"users", "priorities", "types", "statuses", "relationships", "custom_fields"}

\* Jira2YaTrackerFieldMapper.__init__: six empty tables
EmptyMapper == [s \in SectionNames |-> EmptyDict]

\* the key under which an item of `section` is stored and looked up
KeyOfDictPlain(section, key) == key

KeyOfDict(section, key) == IF section = "custom_fields" THEN key ELSE lower(key)

Ok(v) == [ok |-> TRUE, value |-> v]
Raise(e) == [ok |-> FALSE, error |-> e]

\* __parse_ini_file: items is the sequence of (section, key, value) of the file;
\* an unknown section raises ValueError
RECURSIVE ParseItems(_, _)
ParseItems(mapper, items) ==
    IF items = <<>> THEN Ok(mapper)
    ELSE LET it == Head(items) IN
         IF it.section \notin SectionNames THEN Raise("ValueError")
         ELSE ParseItems(
                [mapper EXCEPT ![it.section] =
                    DictSet(@, KeyOfDict(it.section, it.key), it.value)],
                Tail(items))

parse_ini_file(items) == ParseItems(EmptyMapper, items)

\* a mutant of the lookup: an absent key silently yields a default
get_value_from_attr_default(mapper, section_name, key) ==
    IF section_name \notin SectionNames THEN Raise("ValueError")
    ELSE LET yt_issue_field == DictGet(mapper[section_name], KeyOfDict(section_name, key))
         IN IF yt_issue_field = None THEN Ok(key) ELSE Ok(yt_issue_field)

\* __get_value_from_attr
get_value_from_attr(mapper, section_name, key) ==
    IF section_name \notin SectionNames THEN Raise("ValueError")
    ELSE LET yt_issue_field == DictGet(mapper[section_name], KeyOfDict(section_name, key))
         IN IF yt_issue_field = None THEN Raise("KeyError") ELSE Ok(yt_issue_field)

jira_issue_type_to_yt_issue_type(mapper, issue_type) ==
    get_value_from_attr(mapper, "types", issue_type)

jira_issue_priority_to_yt_issue_priority(mapper, issue_priority) ==
    get_value_from_attr(mapper, "priorities", issue_priority)

jira_issue_status_to_yt_issue_status(mapper, jira_issue_status) ==
    get_value_from_attr(mapper, "statuses", jira_issue_status)

jira_relationship_to_yt_relation(mapper, relationship) ==
    get_value_from_attr(mapper, "relationships", relationship)

\* the destination user directory: display name -> uid (users.get_all())
YtUserDirectory == [x \in {"ann", "zed"} |-> IF x = "ann" THEN "uid-ann" ELSE "uid-zed"]

\* jira_user_to_yt_user_id; user_object is None or a display name
jira_user_to_yt_user_id(mapper, user_object, directory) ==
    IF user_object = None THEN Ok(None)
    ELSE LET source_jira_username == get_value_from_attr(mapper, "users", user_object) IN
         IF ~source_jira_username.ok THEN source_jira_username
         ELSE LET destination_yt_user_id == DictGet(directory, source_jira_username.value) IN
              IF destination_yt_user_id = None THEN Raise("Jira2YaTrackerError")
              ELSE Ok(destination_yt_user_id)

(***************************************************************************)
(* Python lists are sequences.                                             *)
(***************************************************************************)
InList(x, list) == \E i \in 1..Len(list) : list[i] = x

RECURSIVE Filter(_, _)
\* [x for x in list if x not in excluded]
Filter(list, excluded) ==
    IF list = <<>> THEN <<>>
    ELSE IF InList(Head(list), excluded) THEN Filter(Tail(list), excluded)
         ELSE <<Head(list)>> \o Filter(Tail(list), excluded)

NoPatch == [emitted |-> FALSE, add |-> <<>>, remove |-> <<>>]

\* a mutant of the diff: values the destination already holds are dropped from "add"
multi_valued_patch_minimal(target_field, source_yt_value) ==
    LET fields_to_add == Filter(target_field, source_yt_value)
        fields_to_remove == Filter(source_yt_value, target_field)
    IN IF fields_to_add # <<>> \/ fields_to_remove # <<>>
       THEN [emitted |-> TRUE, add |-> fields_to_add, remove |-> fields_to_remove]
       ELSE NoPatch

\* jira_additional_fields_to_yt_additional_fields, the branch of a list-valued
\* field that is not "components": target_field is the resolved source list,
\* source_yt_value the destination's current list
multi_valued_patch(target_field, source_yt_value) ==
    LET fields_to_add == target_field
        fields_to_remove == Filter(source_yt_value, fields_to_add)
    IN IF fields_to_add # <<>> \/ fields_to_remove # <<>>
       THEN [emitted |-> TRUE, add |-> fields_to_add, remove |-> fields_to_remove]
       ELSE NoPatch

\* the component directory: name -> id (components.get_all())
YtComponentDirectory == [x \in {"UI", "API", "DB"} |->
                            CASE x = "UI" -> 1 [] x = "API" -> 2 [] OTHER -> 3]

\* [int(components[i]) for i in target_field]; KeyError on an unknown name
ComponentIds(target_field) ==
    IF \E i \in 1..Len(target_field) : target_field[i] \notin DOMAIN YtComponentDirectory
    THEN Raise("KeyError")
    ELSE Ok([i \in 1..Len(target_field) |-> YtComponentDirectory[target_field[i]]])

\* the branch of the field "components": source_yt_value holds component ids
components_patch(target_field, source_yt_value) ==
    LET ids == ComponentIds(target_field) IN
    IF ~ids.ok THEN ids
    ELSE Ok(multi_valued_patch(ids.value, source_yt_value))

\* the destination applying {"add": ..., "remove": ...} to a list-valued field
ApplyPatch(current, patch) ==
    IF ~patch.emitted THEN current
    ELSE LET kept == Filter(current, patch.remove)
         IN kept \o Filter(patch.add, kept)

(***************************************************************************)
(* Configuration: the mapping file and the config file of a run.           *)
(***************************************************************************)
Item(s, k, v) == [section |-> s, key |-> k, value |-> v]

CommonItems ==
    << Item("types", "Bug", "bug"), Item("types", "Epic", "epic"),
       Item("priorities", "High", "critical"),
       Item("users", "Ann", "ann"), Item("users", "Bob", "bob"),
       Item("relationships", "Blocks", "is dependent by"),
       Item("relationships", "subtask", "is parent task for"),
       Item("relationships", "epic", "is epic of"),
       Item("custom_fields", "labels", "tags") >>

\* a mapping file whose statuses name the transitions of the destination workflow
MappingFileMeta ==
    CommonItems \o << Item("statuses", "Open", "openMeta"),
                      Item("statuses", "Done", "closedMeta") >>

\* a mapping file whose statuses name the destination status keys
MappingFilePlain ==
    CommonItems \o << Item("statuses", "Open", "open"),
                      Item("statuses", "Done", "closed") >>

MappingFiles == {MappingFileMeta, MappingFilePlain}

\* config: final_status_for_wip_issue
final_status_for_wip_issue == "closedMeta"

(***************************************************************************)
(* The source tracker: issues by number.                                   *)
(***************************************************************************)
Comment(a, c, b) == [author |-> a, created |-> c, body |-> b]
Attachment(f, c) == [filename |-> f, content |-> c]
Outward(k, t) == [outwardIssue |-> k, inwardIssue |-> 0, type |-> [outward |-> t, inward |-> "inv"]]
Inward(k, t) == [outwardIssue |-> 0, inwardIssue |-> k, type |-> [outward |-> t, inward |-> "inv"]]

JiraIssue ==
    [issuetype |-> "Bug", status |-> "Open", priority |-> "High", summary |-> "summary",
     assignee |-> None, creator |-> "Ann", comments |-> <<>>, attachment |-> <<>>,
     labels |-> <<>>, issuelinks |-> <<>>, subtasks |-> <<>>, parent |-> 0, epic |-> 0]

Pair(a, b) == [k \in {1, 2} |-> IF k = 1 THEN a ELSE b]

ScenarioNames ==
    {"plain", "linked", "epic", "epic_parent", "epic_above", "subtask", "gap",
     "bad_status", "bad_type", "bad_priority", "bad_relationship", "bad_user",
     "unknown_user"}

\* the source issues of each scenario
JiraOf(scenario) ==
    CASE scenario = "plain" ->
           Pair([JiraIssue EXCEPT !.comments = << Comment("Ann", 1, "b1"), Comment("Bob", 2, "b2") >>,
                                  !.labels = <<"x", "y">>],
                [JiraIssue EXCEPT !.status = "Done", !.assignee = "Ann",
                                  !.attachment = << Attachment("f1", "d1"), Attachment("f2", "d2") >>])
      [] scenario = "linked" ->
           Pair([JiraIssue EXCEPT !.issuelinks = << Outward(2, "Blocks") >>],
                [JiraIssue EXCEPT !.issuelinks = << Inward(1, "Blocks") >>])
      [] scenario = "epic" ->
           Pair([JiraIssue EXCEPT !.issuetype = "Epic"],
                [JiraIssue EXCEPT !.epic = 1])
      [] scenario = "epic_parent" ->
           Pair([JiraIssue EXCEPT !.issuetype = "Epic"],
                [JiraIssue EXCEPT !.epic = 1, !.parent = 1])
      [] scenario = "epic_above" ->
           Pair([JiraIssue EXCEPT !.epic = 2],
                [JiraIssue EXCEPT !.issuetype = "Epic"])
      [] scenario = "subtask" ->
           Pair([JiraIssue EXCEPT !.subtasks = <<2>>],
                [JiraIssue EXCEPT !.parent = 1])
      [] scenario = "gap" ->
           [k \in {2, 3} |-> [JiraIssue EXCEPT !.comments = << Comment("Ann", k, "b") >>]]
      [] scenario = "bad_status" ->
           Pair(JiraIssue, [JiraIssue EXCEPT !.status = "Weird"])
      [] scenario = "bad_type" ->
           Pair([JiraIssue EXCEPT !.issuetype = "Task"], JiraIssue)
      [] scenario = "bad_priority" ->
           Pair([JiraIssue EXCEPT !.priority = "Odd"], JiraIssue)
      [] scenario = "bad_relationship" ->
           Pair([JiraIssue EXCEPT !.issuelinks = << Outward(2, "Clones") >>],
                [JiraIssue EXCEPT !.issuelinks = << Inward(1, "Clones") >>])
      [] scenario = "bad_user" ->
           Pair([JiraIssue EXCEPT !.assignee = "Zed"], JiraIssue)
      [] OTHER ->
           Pair([JiraIssue EXCEPT !.assignee = "Bob"], JiraIssue)

(***************************************************************************)
(* The destination tracker: issues by number, and the links between them.  *)
(***************************************************************************)
\* what create_issue(queue, summary) makes: the workflow's initial status
NewYtIssue ==
    [status |-> "open", summary |-> DEFAULT_ISSUE_TITLE, type |-> "task",
     priority |-> "normal", assignee |-> None, tags |-> <<>>,
     comments |-> <<>>, attachments |-> <<>>]

\* an issue left by earlier work on the destination
OldYtIssue ==
    [status |-> "inProgress", summary |-> "old", type |-> "task",
     priority |-> "normal", assignee |-> None, tags |-> <<"x", "z">>,
     comments |-> << [header |-> <<"Old", "wrote", 0>>, body |-> <<"text", "old">>] >>, attachments |-> << Attachment("old", "d0") >>]

Link(a, b, r) == [from |-> a, to |-> b, relationship |-> r]

DestinationNames == {"empty", "migrated", "unlinked", "first_only", "ahead"}

\* the destination a behaviour starts from, for the source issues `keys`
YtIssuesOf(destination, keys) ==
    CASE destination \in {"migrated", "unlinked"} -> [k \in keys |-> OldYtIssue]
      [] destination = "first_only" -> [k \in {1} |-> OldYtIssue]
      [] OTHER -> [k \in {} |-> OldYtIssue]

YtLinksOf(destination, keys) ==
    IF destination = "migrated" /\ Cardinality(keys) > 1
    THEN {Link(CHOOSE k \in keys : \A m \in keys : k <= m,
               CHOOSE k \in keys : \A m \in keys : k >= m, "relates")}
    ELSE {}

NextKeyOf(destination, keys) ==
    CASE destination \in {"migrated", "unlinked"} ->
             1 + (CHOOSE k \in keys : \A m \in keys : k >= m)
      [] destination = "first_only" -> 2
      [] destination = "ahead" -> 2
      [] OTHER -> 1

\* the workflow: from every status, one transition per other status, named
\* <status key>Meta and leading to that status
StatusKeys == {"open", "inProgress", "closed"}

Transitions(status) == {AppendMeta(s) : s \in StatusKeys \ {status}}

\* a mutant: every transition leads to the initial status of the workflow
StatusAfterInitial(transition) == NewYtIssue.status

\* the status a transition leads to
StatusAfter(transition) == CHOOSE s \in StatusKeys : AppendMeta(s) = transition

(***************************************************************************)
(* State.                                                                  *)
(***************************************************************************)
VARIABLES
    \* the inputs of the program, fixed during a behaviour
    command,            \* parsed_cl_args.command
    jira,               \* the source tracker: issue number -> issue
    mapping_file,       \* the items of the mapping file, in file order
    jira_to_yt_mapper,  \* the parsed mapping file
    starting_task,      \* number of the first task of the range
    finish_task,        \* number of the last task of the range, 0 for None
    destination,        \* the name of the destination the behaviour started from
    \* the destination tracker
    yt_issues,          \* issue number -> issue
    yt_links,           \* the links between destination issues
    next_key,           \* the number the queue gives to the next created issue
    \* the process
    run,                \* which run of the program this is
    pc,                 \* the statement the run is at
    jira_issues,        \* the list get_all_jira_issues returned
    idx,                \* position in jira_issues of the issue being processed
    attempt,            \* attempt number of the retry-wrapped function that is running
    inner,              \* attempt number of change_status, called from a wrapped function
    yt_issue,           \* the destination issue object held by the orchestrator
    users_cached,       \* _get_all_users_from_yatracker has a cached result
    epic_issues,        \* the result of get_all_jira_additional_linked_issues
    todo,               \* the links establish_links_between_issues has still to make
    result,             \* "running", "ok" or "failed"
    error,              \* the exception that ended the run, None if none
    closed,             \* number of yt_client.close() calls of this run
    call,               \* the last call made to the field mapper alone, and its result
    \* observation
    ops,                \* the remote calls made by the last step
    tries,              \* the attempt in which the last wrapped function returned
    creates,            \* source issue number -> create_issue calls made for it in this run
    created,            \* source issue number -> numbers of the issues created for it in this run
    missed,             \* a mapping lookup has failed in this run
    faults,             \* outages of the remote services so far
    outage,             \* the last remote call failed: the service may still be down
    made,               \* remote call -> calls made so far by the invocation in progress
    misled,             \* a not-found raised by change_status has led to creation in this run
    prev                \* result and destination state at the end of the previous run

inputVars == <<command, jira, mapping_file, jira_to_yt_mapper, starting_task, finish_task,
              destination, call>>
ytVars == <<yt_issues, yt_links, next_key>>
procVars == <<run, pc, jira_issues, idx, attempt, inner, yt_issue, users_cached,
              epic_issues, todo, result, error, closed>>
obsVars == <<ops, tries, creates, created, missed, faults, outage, made, misled, prev>>
vars == <<inputVars, ytVars, procVars, obsVars>>

Keys == 1..MaxKey

NoIssue == [key |-> 0, status |-> None]

NoCall == [fn |-> None]

NoPrev == [result |-> None, yt_issues |-> [k \in {} |-> OldYtIssue], yt_links |-> {}]

\* no remote call made yet: (operation, issue it is made on) -> number of calls
ZeroMade == [o \in {} |-> 0]

\* the operation of a remote call and the issue (or first key) it is made on
Target(o) ==
    <<o.op, IF o.op \in {"create_issue", "users.get_all", "close"} THEN 0 ELSE o.args[1]>>

\* the count after the calls of one more step
Tally(count, calls) ==
    [t \in (DOMAIN count) \cup {Target(calls[i]) : i \in 1..Len(calls)} |->
        (IF t \in DOMAIN count THEN count[t] ELSE 0)
            + Cardinality({i \in 1..Len(calls) : Target(calls[i]) = t})]

Op(name, args) == [op |-> name, args |-> args]

ZeroCreates == [k \in DOMAIN jira |-> 0]
NoneCreated == [k \in DOMAIN jira |-> {}]

\* the state of a process that has just started
ProcessStart ==
    [pc |-> "main", jira_issues |-> <<>>, idx |-> 0, attempt |-> 1, inner |-> 1,
     yt_issue |-> NoIssue, users_cached |-> FALSE, epic_issues |-> <<>>, todo |-> <<>>,
     result |-> "running", error |-> None, closed |-> 0]

Init ==
    /\ command \in {CONVERGE_ISSUES, ESTABLISH_LINKS_ONLY}
    /\ \E scenario \in ScenarioNames :
          /\ jira = JiraOf(scenario)
          \* the second mapping file and the upper end of the range are combined
          \* with the scenarios in which they make a difference
          /\ mapping_file \in IF scenario = "plain" THEN MappingFiles ELSE {MappingFileMeta}
          /\ finish_task \in IF scenario = "gap" THEN {0, 2} ELSE {0}
    /\ jira_to_yt_mapper = parse_ini_file(mapping_file).value
    /\ call = NoCall
    /\ starting_task \in {1, 2}
    /\ destination \in DestinationNames
    /\ yt_issues = YtIssuesOf(destination, DOMAIN jira)
    /\ yt_links = YtLinksOf(destination, DOMAIN jira)
    /\ next_key = NextKeyOf(destination, DOMAIN jira)
    /\ run = 1
    /\ pc = ProcessStart.pc
    /\ jira_issues = ProcessStart.jira_issues
    /\ idx = ProcessStart.idx
    /\ attempt = ProcessStart.attempt
    /\ inner = ProcessStart.inner
    /\ yt_issue = ProcessStart.yt_issue
    /\ users_cached = ProcessStart.users_cached
    /\ epic_issues = ProcessStart.epic_issues
    /\ todo = ProcessStart.todo
    /\ result = ProcessStart.result
    /\ error = ProcessStart.error
    /\ closed = ProcessStart.closed
    /\ ops = <<>>
    /\ tries = 0
    /\ creates = ZeroCreates
    /\ created = NoneCreated
    /\ missed = FALSE
    /\ faults = 0
    /\ outage = FALSE
    /\ made = ZeroMade
    /\ misled = FALSE
    /\ prev = NoPrev

(***************************************************************************)
(* Control flow helpers.                                                   *)
(***************************************************************************)
\* the source issue being processed
Cur == jira_issues[idx]
CurIssue == jira[Cur]


\* a remote call fails: an outage goes on, or a new one begins
Fault ==
    /\ outage \/ faults < MaxFaults
    /\ faults' = IF outage THEN faults ELSE faults + 1
    /\ outage' = TRUE

\* the remote calls of the step are answered
NoFault == faults' = faults /\ outage' = FALSE

\* the step makes no remote call
Quiet == UNCHANGED <<faults, outage>>

\* control passes to statement p of the function that is running
Continue(p) ==
    /\ pc' = p /\ attempt' = attempt /\ result' = result /\ error' = error /\ tries' = tries
    /\ made' = Tally(made, ops')

\* the function that is running returns and the next retry-wrapped function is
\* called: its first attempt starts at p
Call(p) ==
    /\ pc' = p /\ attempt' = 1 /\ result' = result /\ error' = error /\ tries' = attempt
    /\ made' = ZeroMade

\* a mutant: the exception is logged and the issue is processed again
AbortContinues(e) ==
    /\ pc' = (IF command = CONVERGE_ISSUES THEN "search" ELSE "epic_query")
    /\ attempt' = 1 /\ result' = "failed" /\ error' = e /\ tries' = tries
    /\ made' = Tally(made, ops')

\* a mutant: the exception leaves main() without the finally clause
AbortWithoutClose(e) ==
    /\ pc' = "done" /\ attempt' = 1 /\ result' = "failed" /\ error' = e /\ tries' = tries
    /\ made' = Tally(made, ops')

\* an exception reaches main(): the finally clause runs next
Abort(e) ==
    /\ pc' = "closing" /\ attempt' = 1 /\ result' = "failed" /\ error' = e /\ tries' = tries
    /\ made' = Tally(made, ops')

\* a mutant of the decorator: the exception propagates at once
RetryNever(e, start) == Abort(e)

\* @retry(**RETRY_KWARGS): the wrapped function, whose body starts at `start`,
\* raises e in its attempt-th attempt
Retry(e, start) ==
    IF attempt < MaxAttempts
    THEN /\ pc' = start /\ attempt' = attempt + 1 /\ result' = result /\ error' = error
         /\ tries' = tries
         /\ made' = Tally(made, ops')
    ELSE Abort(e)

\* a mutant: both commands converge the issues
FirstPcConverge == "search"

\* the first statement of an issue's processing
FirstPc == IF command = CONVERGE_ISSUES THEN "search" ELSE "epic_query"

\* the loop over jira_issues: the next issue, or the end of the stage
NextIssue ==
    IF idx < Len(jira_issues)
    THEN idx' = idx + 1 /\ Call(FirstPc)
    ELSE /\ idx' = idx /\ pc' = "closing" /\ attempt' = 1 /\ result' = "ok" /\ error' = error
         /\ tries' = attempt
         /\ made' = ZeroMade

IsMiss(e) == e \in {"KeyError", "Jira2YaTrackerError"}

RECURSIVE SortedSeq(_)
\* ORDER BY key ASC
SortedSeq(S) ==
    IF S = {} THEN <<>>
    ELSE LET m == CHOOSE k \in S : \A j \in S : k <= j
         IN <<m>> \o SortedSeq(S \ {m})

InRange(k) == k >= starting_task /\ (finish_task = 0 \/ k <= finish_task)

(***************************************************************************)
(* get_all_jira_issues                                                     *)
(***************************************************************************)
get_all_jira_issues ==
    /\ pc = "main"
    /\ ops' = << Op("search_issues", <<starting_task, finish_task>>) >>
    /\ \/ /\ NoFault
          /\ jira_issues' = SortedSeq({k \in DOMAIN jira : InRange(k)})
          /\ IF jira_issues' = <<>>
             THEN /\ idx' = 0 /\ pc' = "closing" /\ attempt' = 1 /\ result' = "ok"
                  /\ error' = error /\ tries' = attempt /\ made' = ZeroMade
             ELSE idx' = 1 /\ Call(FirstPc)
       \/ /\ Fault
          /\ Retry("JIRAError", "main")
          /\ UNCHANGED <<jira_issues, idx>>
    /\ UNCHANGED <<inputVars, ytVars, run, inner, yt_issue, users_cached, epic_issues,
                   todo, closed, creates, created, missed, prev, misled>>

(***************************************************************************)
(* get_yt_issue_with_status_by_key_or_create_one                           *)
(***************************************************************************)
\* the key the destination issue is looked up by
SearchKeyFirst(jira_key) == 1

SearchKey(jira_key) == jira_key

\* a mutant of the except clause: every failure of the lookup leads to creation
CreateOnErrorAlways(e) == TRUE

\* except YaTrackerError: status_code != 404 -> raise; otherwise go on to create
CreateOnError(e) == e = "YaTrackerError404"

\* yt_client.get_issue(jira_issue.key)
get_issue ==
    /\ pc = "search"
    /\ ops' = << Op("get_issue", <<SearchKey(Cur)>>) >>
    /\ inner' = 1
    /\ \/ /\ NoFault
          /\ SearchKey(Cur) \in DOMAIN yt_issues
          /\ yt_issue' = [key |-> SearchKey(Cur), status |-> yt_issues[SearchKey(Cur)].status]
          /\ Continue("reconcile")
       \/ /\ NoFault
          /\ SearchKey(Cur) \notin DOMAIN yt_issues
          /\ yt_issue' = NoIssue
          /\ IF CreateOnError("YaTrackerError404")
             THEN Continue("create")
             ELSE Retry("YaTrackerError404", "search")
       \/ /\ Fault
          /\ yt_issue' = NoIssue
          /\ IF CreateOnError("YaTrackerError500")
             THEN Continue("create")
             ELSE Retry("YaTrackerError500", "search")
    /\ UNCHANGED <<inputVars, ytVars, run, jira_issues, idx, users_cached, epic_issues,
                   todo, closed, creates, created, missed, prev, misled>>

\* yt_client.create_issue(queue, summary)
create_issue ==
    /\ pc = "create"
    /\ next_key <= MaxKey
    /\ ops' = << Op("create_issue", <<DEFAULT_ISSUE_TITLE>>) >>
    /\ creates' = [creates EXCEPT ![Cur] = @ + 1]
    /\ inner' = 1
    /\ \/ /\ NoFault
          /\ yt_issues' = [k \in (DOMAIN yt_issues) \cup {next_key} |->
                              IF k = next_key THEN NewYtIssue ELSE yt_issues[k]]
          /\ next_key' = next_key + 1
          /\ created' = [created EXCEPT ![Cur] = @ \cup {next_key}]
          /\ yt_issue' = [key |-> next_key, status |-> NewYtIssue.status]
          /\ Continue("wip")
       \/ /\ Fault
          /\ yt_issue' = NoIssue
          /\ Retry("YaTrackerError500", "search")
          /\ \/ UNCHANGED <<yt_issues, next_key, created>>
             \* the call raises although the tracker has stored the issue
             \/ /\ yt_issues' = [k \in (DOMAIN yt_issues) \cup {next_key} |->
                                    IF k = next_key THEN NewYtIssue ELSE yt_issues[k]]
                /\ next_key' = next_key + 1
                /\ created' = [created EXCEPT ![Cur] = @ \cup {next_key}]
    /\ UNCHANGED <<inputVars, yt_links, run, jira_issues, idx, users_cached, epic_issues,
                   todo, closed, missed, prev, misled>>

(***************************************************************************)
(* change_status                                                           *)
(***************************************************************************)
Truthy(x) == x # None /\ x # ""

\* a mutant: at least one of the two is set
logical_or(a, b) == Truthy(a) \/ Truthy(b)

\* bool(a) + bool(b) == 1
logical_xor(a, b) ==
    (IF Truthy(a) THEN 1 ELSE 0) + (IF Truthy(b) THEN 1 ELSE 0) = 1

\* a mutant: the status key itself is compared with the wanted status
CurrentStatusPlain(status_key) == status_key

\* yt_issue_current_status = yt_issue.status.key + "Meta"
CurrentStatus(status_key) == AppendMeta(status_key)

\* the wanted status, or the exception raised before it is known
WantedStatus(jira_status_name, yt_status_name) ==
    IF ~logical_xor(jira_status_name, yt_status_name) THEN Raise("ValueError")
    ELSE IF jira_status_name # None
         THEN jira_issue_status_to_yt_issue_status(jira_to_yt_mapper, jira_status_name)
         ELSE Ok(yt_status_name)

\* the arguments change_status is called with at pc
JiraStatusArg == IF pc = "reconcile" THEN CurIssue.status ELSE None
YtStatusArg == IF pc = "reconcile" THEN None ELSE final_status_for_wip_issue

\* the answers of the tracker that make a call on an issue raise YaTrackerError:
\* a failure of the service, or the issue or its transition is not found
RemoteErrors == {"YaTrackerError500", "YaTrackerError404"}

\* change_status raises e in its inner-th attempt; after the last attempt the
\* exception reaches get_yt_issue_with_status_by_key_or_create_one
ChangeStatusRaises(e) ==
    IF inner < MaxAttempts
    THEN inner' = inner + 1 /\ Continue(pc) /\ yt_issue' = yt_issue /\ misled' = misled
    ELSE /\ inner' = 1
         /\ IF pc = "reconcile" /\ CreateOnError(e)
            THEN Continue("create") /\ yt_issue' = yt_issue /\ misled' = TRUE
            ELSE Retry(e, "search") /\ yt_issue' = NoIssue /\ misled' = misled

\* a mutant: the placeholder is handed to the orchestrator as the issue to fill
ChangeStatusReturnsPlaceholder ==
    /\ inner' = 1
    /\ misled' = misled
    /\ Call("fill_common")
    /\ yt_issue' = yt_issue

\* change_status returns: the found issue is returned to the orchestrator; after
\* the placeholder's status the function returns None and the loop calls it again
ChangeStatusReturns ==
    /\ inner' = 1
    /\ misled' = misled
    /\ IF pc = "reconcile"
       THEN Call("fill_common") /\ yt_issue' = yt_issue
       ELSE Call("search") /\ yt_issue' = NoIssue

change_status ==
    /\ pc \in {"reconcile", "wip"}
    /\ LET wanted_status == WantedStatus(JiraStatusArg, YtStatusArg)
           get_transitions == Op("get_transitions", <<yt_issue.key>>)
       IN IF ~wanted_status.ok
          THEN /\ ops' = <<>>
               /\ missed' = (missed \/ IsMiss(wanted_status.error))
               /\ Quiet
               /\ ChangeStatusRaises(wanted_status.error)
               /\ UNCHANGED yt_issues
          ELSE IF wanted_status.value = CurrentStatus(yt_issue.status)
          THEN /\ ops' = <<>>
               /\ Quiet
               /\ ChangeStatusReturns
               /\ UNCHANGED <<yt_issues, missed>>
          ELSE /\ UNCHANGED missed
               /\ \/ /\ Fault
                     /\ ops' = <<get_transitions>>
                     /\ \E e \in RemoteErrors : ChangeStatusRaises(e)
                     /\ UNCHANGED yt_issues
                  \/ /\ NoFault
                     /\ wanted_status.value \notin Transitions(yt_issues[yt_issue.key].status)
                     /\ ops' = <<get_transitions>>
                     /\ ChangeStatusRaises("LookupError")
                     /\ UNCHANGED yt_issues
                  \/ /\ Fault
                     /\ wanted_status.value \in Transitions(yt_issues[yt_issue.key].status)
                     /\ ops' = << get_transitions,
                                  Op("execute", <<yt_issue.key, wanted_status.value>>) >>
                     /\ \E e \in RemoteErrors : ChangeStatusRaises(e)
                     /\ UNCHANGED yt_issues
                  \/ /\ NoFault
                     /\ wanted_status.value \in Transitions(yt_issues[yt_issue.key].status)
                     /\ ops' = << get_transitions,
                                  Op("execute", <<yt_issue.key, wanted_status.value>>) >>
                     /\ yt_issues' = [yt_issues EXCEPT ![yt_issue.key].status =
                                          StatusAfter(wanted_status.value)]
                     /\ ChangeStatusReturns
    /\ UNCHANGED <<inputVars, yt_links, next_key, run, jira_issues, idx, users_cached,
                   epic_issues, todo, closed, creates, created, prev>>

(***************************************************************************)
(* fill_common_fields                                                      *)
(***************************************************************************)
\* the keyword arguments of edit_issue, evaluated in the order written, or the
\* exception the first failing lookup raises
CommonFields(issue) ==
    LET type == jira_issue_type_to_yt_issue_type(jira_to_yt_mapper, issue.issuetype)
        priority == jira_issue_priority_to_yt_issue_priority(jira_to_yt_mapper, issue.priority)
        assignee == jira_user_to_yt_user_id(jira_to_yt_mapper, issue.assignee, YtUserDirectory)
        created_by == jira_user_to_yt_user_id(jira_to_yt_mapper, issue.creator, YtUserDirectory)
    IN IF ~type.ok THEN type
       ELSE IF ~priority.ok THEN priority
       ELSE IF ~assignee.ok THEN assignee
       ELSE IF ~created_by.ok THEN created_by
       ELSE Ok([summary |-> issue.summary, type |-> type.value, priority |-> priority.value,
                assignee |-> assignee.value, created_by |-> created_by.value])

\* the evaluation of the arguments reaches _get_all_users_from_yatracker
ReachesUserDirectory(issue) ==
    /\ jira_issue_type_to_yt_issue_type(jira_to_yt_mapper, issue.issuetype).ok
    /\ jira_issue_priority_to_yt_issue_priority(jira_to_yt_mapper, issue.priority).ok
    /\ IF issue.assignee # None
       THEN get_value_from_attr(jira_to_yt_mapper, "users", issue.assignee).ok
       ELSE /\ issue.creator # None
            /\ get_value_from_attr(jira_to_yt_mapper, "users", issue.creator).ok

\* the destination applying edit_issue
EditIssue(old, fields) ==
    [old EXCEPT !.summary = fields.summary, !.type = fields.type,
                !.priority = fields.priority,
                !.assignee = IF fields.assignee = None THEN @ ELSE fields.assignee]

fill_common_fields ==
    /\ pc = "fill_common"
    /\ LET fields == CommonFields(CurIssue)
           fetch == ~users_cached /\ ReachesUserDirectory(CurIssue)
           get_all == IF fetch THEN << Op("users.get_all", <<>>) >> ELSE <<>>
       IN \/ /\ fetch
             /\ Fault
             /\ ops' = get_all
             /\ Retry("TrackerError", "fill_common")
             /\ UNCHANGED <<yt_issues, users_cached, missed>>
          \/ /\ ~fields.ok
             /\ IF fetch THEN NoFault ELSE Quiet
             /\ ops' = get_all
             /\ users_cached' = (users_cached \/ fetch)
             /\ missed' = (missed \/ IsMiss(fields.error))
             /\ Retry(fields.error, "fill_common")
             /\ UNCHANGED yt_issues
          \/ /\ fields.ok
             /\ Fault
             /\ ops' = get_all \o << Op("edit_issue", <<yt_issue.key>>) >>
             /\ users_cached' = (users_cached \/ fetch)
             /\ Retry("YaTrackerError500", "fill_common")
             /\ UNCHANGED <<yt_issues, missed>>
          \/ /\ fields.ok
             /\ NoFault
             /\ ops' = get_all \o << Op("edit_issue", <<yt_issue.key>>) >>
             /\ users_cached' = (users_cached \/ fetch)
             /\ yt_issues' = [yt_issues EXCEPT ![yt_issue.key] = EditIssue(@, fields.value)]
             /\ Call("fill_additional")
             /\ UNCHANGED missed
    /\ UNCHANGED <<inputVars, yt_links, next_key, run, jira_issues, idx, inner, yt_issue,
                   epic_issues, todo, closed, creates, created, prev, misled>>

(***************************************************************************)
(* fill_additional_fields                                                  *)
(***************************************************************************)
\* jira_additional_fields_to_yt_additional_fields for the list-valued source
\* fields of the model: destination field -> patch
AdditionalFields(jira_fields, yt_issue_fields) ==
    LET custom_fields == jira_to_yt_mapper["custom_fields"]
        listed == {key \in DOMAIN custom_fields : key \in DOMAIN jira_fields}
    IN [value \in {custom_fields[key] : key \in listed} |->
            LET key == CHOOSE k \in listed : custom_fields[k] = value
            IN multi_valued_patch(jira_fields[key],
                                  IF value \in DOMAIN yt_issue_fields
                                  THEN yt_issue_fields[value] ELSE <<>>)]

\* the destination applying yt_issue.update(**additional_fields)
UpdateIssue(old, additional_fields) ==
    [f \in DOMAIN old |->
        IF f \in DOMAIN additional_fields
        THEN ApplyPatch(old[f], additional_fields[f]) ELSE old[f]]

fill_additional_fields ==
    /\ pc = "fill_additional"
    /\ \/ /\ NoFault
          /\ ops' = << Op("issues.get", <<yt_issue.key>>), Op("update", <<yt_issue.key>>) >>
          /\ yt_issues' = [yt_issues EXCEPT ![yt_issue.key] =
                              UpdateIssue(@, AdditionalFields(CurIssue, @))]
          /\ Call("comments")
       \/ /\ Fault
          /\ ops' = << Op("issues.get", <<yt_issue.key>>) >>
          /\ Retry("TrackerError", "fill_additional")
          /\ UNCHANGED yt_issues
    /\ UNCHANGED <<inputVars, yt_links, next_key, run, jira_issues, idx, inner, yt_issue,
                   users_cached, epic_issues, todo, closed, creates, created, missed, prev, misled>>

(***************************************************************************)
(* migrate_all_comments, migrate_all_attachments                           *)
(***************************************************************************)
\* jira2markdown.convert
convert(text) == <<"markdown", text>>

\* "<author> <created-verb> <localized timestamp>\n\n<converted body>"
final_comment(comment) ==
    [header |-> <<comment.author, "created", comment.created>>, body |-> convert(comment.body)]

\* a mutant: the existing entries are kept and the new ones appended
ResyncAppend(existing, new) == existing \o new

\* the list after every existing entry was deleted and the new ones were added
Resync(existing, new) == new

\* the lists a failing attempt can leave: some of the existing entries deleted,
\* or all of them deleted and some of the new ones added
PartialResyncs(existing, new) ==
    {SubSeq(existing, d + 1, Len(existing)) : d \in 0..Len(existing)}
        \cup {SubSeq(Resync(existing, new), 1, p) : p \in 0..Len(new)}

migrate_all_comments ==
    /\ pc = "comments"
    /\ ops' = << Op("get_comments", <<yt_issue.key>>) >>
    /\ LET existing == yt_issues[yt_issue.key].comments
           new == [i \in 1..Len(CurIssue.comments) |-> final_comment(CurIssue.comments[i])]
       IN \/ /\ NoFault
             /\ yt_issues' = [yt_issues EXCEPT ![yt_issue.key].comments = Resync(existing, new)]
             /\ Call("attachments")
          \/ /\ Fault
             /\ \E left \in PartialResyncs(existing, new) :
                    yt_issues' = [yt_issues EXCEPT ![yt_issue.key].comments = left]
             /\ Retry("YaTrackerError500", "comments")
    /\ UNCHANGED <<inputVars, yt_links, next_key, run, jira_issues, idx, inner, yt_issue,
                   users_cached, epic_issues, todo, closed, creates, created, missed, prev, misled>>

\* a mutant: the links of the destination issue are not reset
AfterAttachmentsNoReset == "epic_query"

\* the statement of create_yt_issue_and_migrate_fields after migrate_all_attachments
AfterAttachments == "delete_links"

\* attach_file(yt_issue.id, attachment.get(), attachment.filename)
attached_file(attachment) ==
    [filename |-> attachment.filename, content |-> attachment.content]

migrate_all_attachments ==
    /\ pc = "attachments"
    /\ ops' = << Op("get_attachments", <<yt_issue.key>>) >>
    /\ LET existing == yt_issues[yt_issue.key].attachments
           new == [i \in 1..Len(CurIssue.attachment) |-> attached_file(CurIssue.attachment[i])]
       IN \/ /\ NoFault
             /\ yt_issues' = [yt_issues EXCEPT ![yt_issue.key].attachments = Resync(existing, new)]
             /\ Call(AfterAttachments)
          \/ /\ Fault
             /\ \E left \in PartialResyncs(existing, new) :
                    yt_issues' = [yt_issues EXCEPT ![yt_issue.key].attachments = left]
             /\ Retry("YaTrackerError500", "attachments")
    /\ UNCHANGED <<inputVars, yt_links, next_key, run, jira_issues, idx, inner, yt_issue,
                   users_cached, epic_issues, todo, closed, creates, created, missed, prev, misled>>

(***************************************************************************)
(* delete_all_links                                                        *)
(***************************************************************************)
LinksOf(key) == {l \in yt_links : l.from = key \/ l.to = key}

\* a mutant: only the links that start at the issue are deleted
LinksToDeleteOutgoing(key) == {l \in yt_links : l.from = key}

\* for link in ya_issue.links: link.delete()
LinksToDelete(key) == LinksOf(key)

delete_all_links ==
    /\ pc = "delete_links"
    /\ ops' = << Op("issues.get", <<yt_issue.key>>) >>
    /\ \/ /\ NoFault
          /\ yt_links' = yt_links \ LinksToDelete(yt_issue.key)
          /\ Call("epic_query")
       \/ /\ Fault
          /\ \E deleted \in SUBSET LinksToDelete(yt_issue.key) : yt_links' = yt_links \ deleted
          /\ Retry("TrackerError", "delete_links")
    /\ UNCHANGED <<inputVars, yt_issues, next_key, run, jira_issues, idx, inner, yt_issue,
                   users_cached, epic_issues, todo, closed, creates, created, missed, prev, misled>>

(***************************************************************************)
(* establish_links_between_issues                                          *)
(***************************************************************************)
LinkTask(first, second, relation) ==
    [hierarchical |-> FALSE, first |-> first, second |-> second, relation |-> relation]

\* a mutant: the arguments of link_yt_issues_parent are swapped
ParentTaskChildFirst(first, second) ==
    [hierarchical |-> TRUE, first |-> second, second |-> first,
     relation |-> jira[second].issuetype]

\* link_yt_issues_parent(first_issue_segment, second_issue_segment): the relation
\* is decided from the type of the first segment when the call is made
ParentTask(first, second) ==
    [hierarchical |-> TRUE, first |-> first, second |-> second,
     relation |-> jira[first].issuetype]

\* a mutant: the inward link keeps the issue itself on the "from" side
IssueLinkTaskUnswapped(key, issue_link) ==
    IF issue_link.outwardIssue # 0
    THEN << LinkTask(key, issue_link.outwardIssue, issue_link.type.outward) >>
    ELSE IF issue_link.inwardIssue # 0
    THEN << LinkTask(key, issue_link.inwardIssue, issue_link.type.outward) >>
    ELSE <<>>

\* the body of  for issue_link in jira_issue.fields.issuelinks
IssueLinkTask(key, issue_link) ==
    IF issue_link.outwardIssue # 0
    THEN << LinkTask(key, issue_link.outwardIssue, issue_link.type.outward) >>
    ELSE IF issue_link.inwardIssue # 0
    THEN << LinkTask(issue_link.inwardIssue, key, issue_link.type.outward) >>
    ELSE <<>>

RECURSIVE IssueLinkTasks(_, _)
IssueLinkTasks(key, issuelinks) ==
    IF issuelinks = <<>> THEN <<>>
    ELSE IssueLinkTask(key, Head(issuelinks)) \o IssueLinkTasks(key, Tail(issuelinks))

\* the calls establish_links_between_issues makes for the issue, in order
LinkTasks(key, children) ==
    LET issue == jira[key] IN
    IssueLinkTasks(key, issue.issuelinks)
        \o [i \in 1..Len(issue.subtasks) |-> ParentTask(key, issue.subtasks[i])]
        \o [i \in 1..Len(children) |-> ParentTask(key, children[i])]
        \o (IF issue.parent # 0 THEN << ParentTask(issue.parent, key) >> ELSE <<>>)

\* a mutant: the secondary query is not made
EpicChildrenNone(key) == <<>>

\* search_issues("key!=<key> AND parentEpic IN (<key>) ORDER BY key ASC")
EpicChildren(key) == SortedSeq({k \in DOMAIN jira : k # key /\ jira[k].epic = key})

\* get_all_jira_additional_linked_issues, then the start of
\* establish_links_between_issues
get_all_jira_additional_linked_issues ==
    /\ pc = "epic_query"
    /\ LET type_of_issue == jira_issue_type_to_yt_issue_type(jira_to_yt_mapper, CurIssue.issuetype)
           established(children) ==
               /\ epic_issues' = children
               /\ todo' = LinkTasks(Cur, children)
               /\ IF todo' = <<>> THEN NextIssue ELSE idx' = idx /\ Call("links")
       IN IF ~type_of_issue.ok
          THEN /\ ops' = <<>>
               /\ Quiet
               /\ missed' = TRUE
               /\ Retry(type_of_issue.error, "epic_query")
               /\ UNCHANGED <<epic_issues, todo, idx>>
          ELSE IF type_of_issue.value # "epic"
          THEN /\ ops' = <<>>
               /\ Quiet
               /\ established(<<>>)
               /\ UNCHANGED missed
          ELSE /\ ops' = << Op("search_issues", <<Cur>>) >>
               /\ UNCHANGED missed
               /\ \/ NoFault /\ established(EpicChildren(Cur))
                  \/ /\ Fault
                     /\ Retry("JIRAError", "epic_query")
                     /\ UNCHANGED <<epic_issues, todo, idx>>
    /\ UNCHANGED <<inputVars, ytVars, run, jira_issues, inner, yt_issue, users_cached,
                   closed, creates, created, prev, misled>>

\* the relation link_yt_issues_parent passes on, for the translated type of the parent
ParentRelation(type_of_issue) == IF type_of_issue = "epic" THEN "epic" ELSE "subtask"

\* the destination refuses a second link between two issues that are linked
AlreadyLinked(a, b) ==
    \E l \in yt_links : (l.from = a /\ l.to = b) \/ (l.from = b /\ l.to = a)

\* the answer of the destination to links.create(first -> second)
LinkAnswer(first, second) ==
    IF first \notin DOMAIN yt_issues \/ second \notin DOMAIN yt_issues THEN "NotFound"
    ELSE IF AlreadyLinked(first, second) THEN "UnprocessableEntity"
    ELSE "Created"

\* a mutant: no answer is absorbed
ToleratedNever(answer) == FALSE

\* except UnprocessableEntity / except NotFound: the answers that are only logged
Tolerated(answer) == answer \in {"UnprocessableEntity", "NotFound"}

\* link_yt_issues_parent / link_yt_issues for the first link still to make
link_yt_issues ==
    /\ pc = "links"
    /\ LET task == Head(todo)
           type_of_issue == IF task.hierarchical
                            THEN jira_issue_type_to_yt_issue_type(jira_to_yt_mapper, task.relation)
                            ELSE Ok(None)
           type_of_relation == IF task.hierarchical
                               THEN ParentRelation(type_of_issue.value)
                               ELSE task.relation
           relationship == jira_relationship_to_yt_relation(jira_to_yt_mapper, type_of_relation)
           create == Op("links.create", <<task.first, task.second, relationship.value>>)
           returned == /\ todo' = Tail(todo)
                       /\ IF todo' = <<>> THEN NextIssue ELSE idx' = idx /\ Call("links")
       IN IF ~type_of_issue.ok
          THEN /\ ops' = <<>>
               /\ Quiet
               /\ missed' = TRUE
               /\ Abort(type_of_issue.error)
               /\ UNCHANGED <<yt_links, todo, idx>>
          ELSE IF ~relationship.ok
          THEN /\ ops' = <<>>
               /\ Quiet
               /\ missed' = TRUE
               /\ Retry(relationship.error, "links")
               /\ UNCHANGED <<yt_links, todo, idx>>
          ELSE /\ ops' = <<create>>
               /\ UNCHANGED missed
               /\ \/ /\ NoFault
                     /\ LET answer == LinkAnswer(task.first, task.second)
                        IN IF answer = "Created"
                           THEN /\ yt_links' = yt_links \cup
                                       {Link(task.first, task.second, relationship.value)}
                                /\ returned
                           ELSE IF Tolerated(answer)
                           THEN yt_links' = yt_links /\ returned
                           ELSE /\ Retry(answer, "links")
                                /\ UNCHANGED <<yt_links, todo, idx>>
                  \/ /\ Fault
                     /\ Retry("TrackerError", "links")
                     /\ UNCHANGED <<yt_links, todo, idx>>
    /\ UNCHANGED <<inputVars, yt_issues, next_key, run, jira_issues, inner, yt_issue,
                   users_cached, epic_issues, closed, creates, created, prev, misled>>

(***************************************************************************)
(* main                                                                    *)
(***************************************************************************)
\* finally: await yt_client.close()
close ==
    /\ pc = "closing"
    /\ ops' = << Op("close", <<>>) >>
    /\ closed' = closed + 1
    /\ pc' = "done"
    /\ UNCHANGED <<inputVars, ytVars, run, jira_issues, idx, attempt, inner, yt_issue,
                   users_cached, epic_issues, todo, result, error, tries, creates,
                   created, missed, faults, outage, made, prev, misled>>

\* the program is started again with the same arguments
main ==
    /\ pc = "done"
    /\ run < MaxRuns
    /\ run' = run + 1
    /\ prev' = [result |-> result, yt_issues |-> yt_issues, yt_links |-> yt_links]
    /\ pc' = ProcessStart.pc
    /\ jira_issues' = ProcessStart.jira_issues
    /\ idx' = ProcessStart.idx
    /\ attempt' = ProcessStart.attempt
    /\ inner' = ProcessStart.inner
    /\ yt_issue' = ProcessStart.yt_issue
    /\ users_cached' = ProcessStart.users_cached
    /\ epic_issues' = ProcessStart.epic_issues
    /\ todo' = ProcessStart.todo
    /\ result' = ProcessStart.result
    /\ error' = ProcessStart.error
    /\ closed' = ProcessStart.closed
    /\ ops' = <<>>
    /\ tries' = 0
    /\ creates' = ZeroCreates
    /\ created' = NoneCreated
    /\ missed' = FALSE
    /\ made' = ZeroMade
    /\ misled' = FALSE
    /\ UNCHANGED <<inputVars, ytVars, faults, outage>>

Next ==
    \/ get_all_jira_issues
    \/ get_issue
    \/ create_issue
    \/ change_status
    \/ fill_common_fields
    \/ fill_additional_fields
    \/ migrate_all_comments
    \/ migrate_all_attachments
    \/ delete_all_links
    \/ get_all_jira_additional_linked_issues
    \/ link_yt_issues
    \/ close
    \/ main

Spec == Init /\ [][Next]_vars

(***************************************************************************)
(* The field mapper alone: a mapper constructed from a mapping file, and   *)
(* one call of its lookup or diff functions.                               *)
(***************************************************************************)
\* longest mapping file of the mapper's specification
MaxFileLen == 2
\* largest value of a list-valued field
MaxValue == 4

FileItems ==
    {Item("types", k, v) : k \in {"Bug", "bug"}, v \in {"v1", "v2"}}
        \cup {Item("statuses", "Open", "openMeta"), Item("users", "Ann", "ann"),
              Item("users", "Bob", "bob"), Item("priorities", "High", "critical"),
              Item("relationships", "Blocks", "relates"),
              Item("custom_fields", "labels", "tags"),
              Item("custom_fields", "components.name", "components")}

\* the destination fields the mapper's custom_fields table names
CustomFieldValues ==
    {jira_to_yt_mapper["custom_fields"][k] : k \in DOMAIN jira_to_yt_mapper["custom_fields"]}

\* configparser refuses a file that repeats an option of a section
NoDuplicateOption(file) ==
    \A i, j \in 1..Len(file) :
        i # j => (file[i].section # file[j].section \/ file[i].key # file[j].key)

Files ==
    {file \in UNION {[1..n -> FileItems] : n \in 0..MaxFileLen} : NoDuplicateOption(file)}

LookupKeys == {"Bug", "bug", "BUG", "Open", "Ann", "Bob", "High", "Blocks"}

RECURSIVE Ascending(_, _)
\* the ascending list of the members of S that are at least n
Ascending(S, n) ==
    IF n > MaxValue THEN <<>>
    ELSE (IF n \in S THEN <<n>> ELSE <<>>) \o Ascending(S, n + 1)

Reverse(list) == [i \in 1..Len(list) |-> list[Len(list) + 1 - i]]

\* lists without repetition, ascending or descending
Lists ==
    {Ascending(S, 1) : S \in SUBSET (1..MaxValue)}
        \cup {Reverse(Ascending(S, 1)) : S \in SUBSET (1..MaxValue)}

ComponentNameOf(id) == CHOOSE name \in DOMAIN YtComponentDirectory : YtComponentDirectory[name] = id

InitMapper ==
    /\ mapping_file \in Files
    /\ jira_to_yt_mapper = parse_ini_file(mapping_file).value
    /\ call = NoCall
    /\ command = CONVERGE_ISSUES
    /\ jira = JiraOf("plain")
    /\ starting_task = 1
    /\ finish_task = 0
    /\ destination = "empty"
    /\ yt_issues = YtIssuesOf("empty", {})
    /\ yt_links = {}
    /\ next_key = 1
    /\ run = 1
    /\ pc = ProcessStart.pc
    /\ jira_issues = ProcessStart.jira_issues
    /\ idx = ProcessStart.idx
    /\ attempt = ProcessStart.attempt
    /\ inner = ProcessStart.inner
    /\ yt_issue = ProcessStart.yt_issue
    /\ users_cached = ProcessStart.users_cached
    /\ epic_issues = ProcessStart.epic_issues
    /\ todo = ProcessStart.todo
    /\ result = ProcessStart.result
    /\ error = ProcessStart.error
    /\ closed = ProcessStart.closed
    /\ ops = <<>>
    /\ tries = 0
    /\ creates = ZeroCreates
    /\ created = NoneCreated
    /\ missed = FALSE
    /\ faults = 0
    /\ outage = FALSE
    /\ made = ZeroMade
    /\ misled = FALSE
    /\ prev = NoPrev

MapperUnchanged ==
    UNCHANGED <<command, jira, mapping_file, jira_to_yt_mapper, starting_task, finish_task,
                destination, ytVars, procVars, obsVars>>

\* a call of one of the four translation functions
Translate ==
    /\ call = NoCall
    /\ \E section \in {"types", "priorities", "statuses", "relationships"}, key \in LookupKeys :
          call' = [fn |-> "translate", section |-> section, key |-> key,
                   result |->
                     CASE section = "types" ->
                            jira_issue_type_to_yt_issue_type(jira_to_yt_mapper, key)
                       [] section = "priorities" ->
                            jira_issue_priority_to_yt_issue_priority(jira_to_yt_mapper, key)
                       [] section = "statuses" ->
                            jira_issue_status_to_yt_issue_status(jira_to_yt_mapper, key)
                       [] OTHER ->
                            jira_relationship_to_yt_relation(jira_to_yt_mapper, key)]
    /\ MapperUnchanged

\* a call of jira_user_to_yt_user_id for a user with a display name
TranslateUser ==
    /\ call = NoCall
    /\ \E key \in LookupKeys :
          call' = [fn |-> "translate", section |-> "users", key |-> key,
                   result |-> jira_user_to_yt_user_id(jira_to_yt_mapper, key, YtUserDirectory)]
    /\ MapperUnchanged

\* the diff of a list-valued custom field that is not "components"
Diff ==
    /\ call = NoCall
    /\ "tags" \in CustomFieldValues
    /\ \E target_field \in Lists, source_yt_value \in Lists :
          call' = [fn |-> "diff", value |-> "tags", desired |-> target_field,
                   current |-> source_yt_value,
                   result |-> Ok(multi_valued_patch(target_field, source_yt_value))]
    /\ MapperUnchanged

\* the diff of the field "components": the source names the components, the
\* destination holds their ids
DiffComponents ==
    /\ call = NoCall
    /\ "components" \in CustomFieldValues
    /\ \E ids \in Lists, source_yt_value \in Lists :
          /\ \A i \in 1..Len(ids) : ids[i] \in {YtComponentDirectory[n] : n \in DOMAIN YtComponentDirectory}
          /\ call' = [fn |-> "diff", value |-> "components", desired |-> ids,
                      current |-> source_yt_value,
                      result |-> components_patch([i \in 1..Len(ids) |-> ComponentNameOf(ids[i])],
                                                  source_yt_value)]
    /\ MapperUnchanged

NextMapper ==
    \/ Translate
    \/ TranslateUser
    \/ Diff
    \/ DiffComponents

SpecMapper == InitMapper /\ [][NextMapper]_vars

(***************************************************************************)
(* change_status alone, called with every combination of its two keyword   *)
(* arguments on an issue of the destination, the tracker answering.        *)
(***************************************************************************)
JiraStatusNames == {None, "", "Open", "Done", "Reopened"}
YtStatusNames == {None, "", "openMeta", "closedMeta", "closed"}

\* the mapping lookups one attempt of change_status makes
StatusLookups(jira_status_name, yt_status_name) ==
    IF ~logical_xor(jira_status_name, yt_status_name) THEN <<>>
    ELSE IF jira_status_name # None THEN <<jira_status_name>>
    ELSE <<>>

\* one attempt of change_status on the issue `key`, whose status key is
\* status_key: the exception it raises (None if it returns), the mapping
\* lookups and the remote calls it makes
ChangeStatusAttempt(key, status_key, jira_status_name, yt_status_name) ==
    LET wanted_status == WantedStatus(jira_status_name, yt_status_name)
        lookups == StatusLookups(jira_status_name, yt_status_name)
        get_transitions == Op("get_transitions", <<key>>)
    IN IF ~wanted_status.ok
       THEN [error |-> wanted_status.error, lookups |-> lookups, calls |-> <<>>]
       ELSE IF wanted_status.value = CurrentStatus(status_key)
       THEN [error |-> None, lookups |-> lookups, calls |-> <<>>]
       ELSE IF wanted_status.value \notin Transitions(status_key)
       THEN [error |-> "LookupError", lookups |-> lookups, calls |-> <<get_transitions>>]
       ELSE [error |-> None, lookups |-> lookups,
             calls |-> << get_transitions, Op("execute", <<key, wanted_status.value>>) >>]

InitStatus ==
    /\ mapping_file \in MappingFiles
    /\ jira_to_yt_mapper = parse_ini_file(mapping_file).value
    /\ call = NoCall
    /\ command = CONVERGE_ISSUES
    /\ jira = JiraOf("plain")
    /\ starting_task = 1
    /\ finish_task = 0
    /\ destination = "first_only"
    /\ yt_issues = YtIssuesOf("first_only", DOMAIN jira)
    /\ yt_links = {}
    /\ next_key = 2
    /\ run = 1
    /\ pc = ProcessStart.pc
    /\ jira_issues = ProcessStart.jira_issues
    /\ idx = ProcessStart.idx
    /\ attempt = ProcessStart.attempt
    /\ inner = ProcessStart.inner
    /\ yt_issue = ProcessStart.yt_issue
    /\ users_cached = ProcessStart.users_cached
    /\ epic_issues = ProcessStart.epic_issues
    /\ todo = ProcessStart.todo
    /\ result = ProcessStart.result
    /\ error = ProcessStart.error
    /\ closed = ProcessStart.closed
    /\ ops = <<>>
    /\ tries = 0
    /\ creates = ZeroCreates
    /\ created = NoneCreated
    /\ missed = FALSE
    /\ faults = 0
    /\ outage = FALSE
    /\ made = ZeroMade
    /\ misled = FALSE
    /\ prev = NoPrev

\* change_status(yt_issue, jira_status_name=..., yt_status_name=...) on the
\* issue 1 of the destination, in any status of the workflow: @retry repeats a
\* failing attempt, the last exception is re-raised
ChangeStatusCall ==
    /\ call = NoCall
    /\ \E status_key \in StatusKeys, jira_status_name \in JiraStatusNames,
          yt_status_name \in YtStatusNames :
          LET once == ChangeStatusAttempt(1, status_key, jira_status_name, yt_status_name)
          IN /\ call' = [fn |-> "change_status", status |-> status_key,
                         jira_status_name |-> jira_status_name,
                         yt_status_name |-> yt_status_name,
                         attempts |-> IF once.error = None THEN 1 ELSE MaxAttempts,
                         error |-> once.error, lookups |-> once.lookups,
                         calls |-> once.calls]
             /\ ops' = once.calls
             /\ yt_issues' = IF once.error = None /\ once.calls # <<>>
                             THEN [yt_issues EXCEPT ![1].status = StatusAfter(once.calls[2].args[2])]
                             ELSE [yt_issues EXCEPT ![1].status = status_key]
    /\ UNCHANGED <<command, jira, mapping_file, jira_to_yt_mapper, starting_task, finish_task,
                   destination, yt_links, next_key, procVars, tries, creates, created, missed,
                   faults, outage, made, misled, prev>>

NextStatus == ChangeStatusCall

SpecStatus == InitStatus /\ [][NextStatus]_vars

(***************************************************************************)
(* Properties.                                                             *)
(***************************************************************************)
Range(list) == {list[i] : i \in 1..Len(list)}

Converging == command = CONVERGE_ISSUES

\* the run has ended without an exception
RunSucceeded == pc = "done" /\ result = "ok"

\* C1: when a converge run that succeeded is followed by a second converge run
\* over the same range that succeeds too, the destination after the second run
\* is the destination after the first: the same issues with the same fields,
\* comments and attachments, and the same links.
C1_Idempotence ==
    (Converging /\ run >= 2 /\ RunSucceeded /\ prev.result = "ok")
        => (yt_issues = prev.yt_issues /\ yt_links = prev.yt_links)

C1_Witness ==
    /\ Converging /\ run = 2 /\ RunSucceeded /\ prev.result = "ok"
    /\ tries > 1
    /\ yt_links # {}
    /\ \E k \in DOMAIN yt_issues : yt_issues[k].comments # <<>>

\* C2 as stated: create_issue is called for a source issue only while no
\* destination issue has the source issue's key, and a converge run that follows
\* a converge run that succeeded over the same range calls create_issue for no
\* issue.
C2_FindsInsteadOfCreating ==
    Converging =>
        /\ pc = "create" => Cur \notin DOMAIN yt_issues
        /\ (run >= 2 /\ prev.result = "ok") => creates = ZeroCreates

\* C3 as stated: at most one issue is created for a source issue in a run,
\* whatever number the queue gives to the placeholder.
C3_CreatedAtMostOnce ==
    \A k \in DOMAIN jira : Cardinality(created[k]) <= 1

\* the statements after find-or-create of an issue's convergence
AfterFind == {"fill_common", "fill_additional", "comments", "attachments", "delete_links",
              "epic_query", "links"}

\* find-or-create has returned a destination issue for source issue k in this run
Returned(k) ==
    /\ Converging
    /\ \E p \in 1..Len(jira_issues) :
          /\ jira_issues[p] = k
          /\ p < idx \/ (p = idx /\ (pc \in AfterFind \/ result = "ok"))

\* C3 as amended: the issues created for a source issue are consecutive numbers
\* of the queue, and find-or-create returns only when the source key exists.
\* Unless a not-found raised by change_status has led to creation, the numbers
\* created end at the source key once find-or-create has returned, so that one
\* issue is created when the queue's next number is the source key, and a run
\* that starts from the empty queue at key 1 and succeeds creates exactly one
\* issue per source issue, keyed like it.
C3_CreatedUpToTheKey ==
    Converging =>
        /\ \A k \in DOMAIN jira :
              /\ created[k] = {} \/ \E a, b \in created[k] : created[k] = a..b
              /\ Returned(k) => k \in DOMAIN yt_issues
        /\ ~misled =>
              \A k \in DOMAIN jira :
                  /\ (\A c \in created[k] : c <= k) \/ (\A c \in created[k] : c > k)
                  /\ Returned(k) =>
                        /\ created[k] = {} \/ k \in created[k]
                        /\ \A c \in created[k] : c <= k
        /\ (~misled /\ run = 1 /\ RunSucceeded /\ destination = "empty" /\ jira_issues[1] = 1) =>
              /\ \A p \in 1..Len(jira_issues) :
                    jira_issues[p] = p /\ created[p] = {p} /\ creates[p] >= 1
              /\ DOMAIN yt_issues = 1..Len(jira_issues)

C3_Witness ==
    /\ Converging /\ ~misled
    /\ pc = "fill_common"
    /\ created[Cur] = {1, 2}
    /\ yt_issue.key = 2

\* C5 as stated: once a mapping lookup has failed, the next thing the run does
\* is the shutdown, and the run has failed.
C5_FailFast ==
    missed => (pc \in {"closing", "done"} /\ result = "failed")

\* the last step made none of the calls named
NoTransitionCall(calls) ==
    \A i \in 1..Len(calls) : calls[i].op \notin {"get_transitions", "execute"}

\* C6 as stated: when the destination issue's status key equals the target
\* status, status reconciliation fetches and executes no transition.
C6_NoOpOnEqualKey ==
    [][(/\ pc \in {"reconcile", "wip"}
        /\ WantedStatus(JiraStatusArg, YtStatusArg).ok
        /\ WantedStatus(JiraStatusArg, YtStatusArg).value = yt_issue.status)
          => NoTransitionCall(ops')]_vars

\* C6 as amended: when the destination issue's status key followed by "Meta"
\* equals the target status, status reconciliation fetches and executes no
\* transition and leaves the destination as it is.
C6_NoOpOnEqualMeta ==
    [][(/\ pc \in {"reconcile", "wip"}
        /\ WantedStatus(JiraStatusArg, YtStatusArg).ok
        /\ WantedStatus(JiraStatusArg, YtStatusArg).value = AppendMeta(yt_issue.status))
          => (NoTransitionCall(ops') /\ ops' = <<>> /\ yt_issues' = yt_issues)]_vars

C6_Witness ==
    /\ Converging
    /\ pc = "fill_common" /\ attempt = 1 /\ ops = <<>>
    /\ jira_issue_status_to_yt_issue_status(jira_to_yt_mapper, CurIssue.status).value
          = AppendMeta(yt_issues[yt_issue.key].status)

\* the comments and attachments of source issue k as the destination is to hold them
ExpectedComments(k) ==
    [i \in 1..Len(jira[k].comments) |->
        [header |-> <<jira[k].comments[i].author, "created", jira[k].comments[i].created>>,
         body |-> <<"markdown", jira[k].comments[i].body>>]]

ExpectedAttachments(k) ==
    [i \in 1..Len(jira[k].attachment) |->
        [filename |-> jira[k].attachment[i].filename,
         content |-> jira[k].attachment[i].content]]

\* C8: once the comment step of an issue's convergence has returned, the
\* destination issue's comments are the source comments, once each and in
\* source order, and once the attachment step has returned its attachments are
\* the source attachments under their filenames, whatever the destination held
\* before and however many attempts failed.
C8_ResyncOwnership ==
    Converging =>
        /\ pc \in {"attachments", "delete_links", "epic_query", "links"}
              => yt_issues[yt_issue.key].comments = ExpectedComments(Cur)
        /\ pc \in {"delete_links", "epic_query", "links"}
              => yt_issues[yt_issue.key].attachments = ExpectedAttachments(Cur)

C8_Witness ==
    /\ Converging
    /\ pc = "attachments" /\ attempt = 1 /\ tries = MaxAttempts
    /\ destination = "migrated"
    /\ Len(CurIssue.comments) = 2
    /\ yt_issues[yt_issue.key].comments = ExpectedComments(Cur)

\* the number of explicit links among the links still to make
RECURSIVE Explicit(_)
Explicit(tasks) ==
    IF tasks = <<>> THEN 0
    ELSE (IF Head(tasks).hierarchical THEN 0 ELSE 1) + Explicit(Tail(tasks))

\* C9: every explicit link of source issue A gets one create-link call: for an
\* outward link to B with outward label L the call is (A, B, translate(L)), for
\* an inward link from B whose type has outward label L it is (B, A, translate(L)).
C9_LinkDirection ==
    [][/\ (pc = "epic_query" /\ pc' = "links")
            => Explicit(todo') = Len(CurIssue.issuelinks)
       /\ (pc = "links" /\ ~Head(todo).hierarchical /\ ops' # <<>>)
            => LET issue_link ==
                       CurIssue.issuelinks[Len(CurIssue.issuelinks) - Explicit(todo) + 1]
                   label == jira_relationship_to_yt_relation(
                                jira_to_yt_mapper, issue_link.type.outward).value
               IN ops' = << Op("links.create",
                               IF issue_link.outwardIssue # 0
                               THEN <<Cur, issue_link.outwardIssue, label>>
                               ELSE <<issue_link.inwardIssue, Cur, label>>) >>]_vars

C9_Witness ==
    /\ pc = "closing" /\ result = "ok"
    /\ Cur = 2
    /\ CurIssue.issuelinks = << Inward(1, "Blocks") >>
    /\ ops = << Op("links.create", <<1, 2, "is dependent by">>) >>
    /\ Link(1, 2, "is dependent by") \in yt_links

\* C10 as stated: when a converge run over a range that holds an epic and its
\* children has succeeded, the destination holds a link from the epic to every
\* child that only the epic-child query returns.
C10_EpicChildrenLinked ==
    (Converging /\ RunSucceeded) =>
        \A e, c \in Range(jira_issues) :
            (jira[c].epic = e /\ jira[c].parent = 0 /\ jira[e].subtasks = <<>>)
                => Link(e, c, "is epic of") \in yt_links

(***************************************************************************)
(* Properties of the field mapper alone.                                   *)
(***************************************************************************)
\* the items of the mapping file that give `key` in `section`, compared
\* case-insensitively
Matching(section, key) ==
    {i \in 1..Len(mapping_file) :
        mapping_file[i].section = section /\ lower(mapping_file[i].key) = lower(key)}

\* C4: translating a key that the mapping file gives for the table, compared
\* case-insensitively, returns the value the file maps it to (the last one,
\* when two spellings of the key are given), for a user the id of that value in
\* the directory; translating a key the file does not give raises KeyError.
C4_MappingTotality ==
    call.fn = "translate" =>
        LET given == Matching(call.section, call.key)
            mapped == mapping_file[CHOOSE i \in given : \A j \in given : j <= i].value
        IN IF given = {} THEN call.result = Raise("KeyError")
           ELSE IF call.section # "users" THEN call.result = Ok(mapped)
           ELSE IF mapped \in DOMAIN YtUserDirectory
                THEN call.result = Ok(YtUserDirectory[mapped])
                ELSE call.result = Raise("Jira2YaTrackerError")

C4_Witness ==
    /\ call.fn = "translate"
    /\ call.section = "types"
    /\ call.key = "BUG"
    /\ mapping_file = << Item("types", "Bug", "v1"), Item("types", "bug", "v2") >>
    /\ call.result = Ok("v2")

\* C7 as stated: the patch is {add: desired minus current, remove: current
\* minus desired}, and no patch is emitted when current equals desired.
C7_DiffOfSets ==
    (call.fn = "diff" /\ call.result.ok) =>
        LET patch == call.result.value
            desired == Range(call.desired)
            current == Range(call.current)
        IN IF desired = current THEN ~patch.emitted
           ELSE /\ patch.emitted
                /\ Range(patch.add) = desired \ current
                /\ Range(patch.remove) = current \ desired

\* C7 as amended: the patch is {add: desired, remove: current minus desired},
\* and no patch is emitted only when desired is empty and nothing is to remove.
C7_DiffAddsDesired ==
    (call.fn = "diff" /\ call.result.ok) =>
        LET patch == call.result.value
            desired == Range(call.desired)
            current == Range(call.current)
        IN IF desired = {} /\ current = {} THEN ~patch.emitted
           ELSE /\ patch.emitted
                /\ patch.add = call.desired
                /\ Range(patch.remove) = current \ desired
                /\ Len(patch.remove) = Cardinality(current \ desired)

C7_Witness ==
    /\ call.fn = "diff"
    /\ call.desired = <<2, 3, 4>>
    /\ call.current = <<1, 2, 3>>
    /\ call.result = Ok([emitted |-> TRUE, add |-> <<2, 3, 4>>, remove |-> <<1>>])

(***************************************************************************)
(* Properties of the retries, the order of work and the end of the run.    *)
(***************************************************************************)
\* C11 as stated: one invocation of a step makes every remote call at most
\* MaxAttempts times, status reconciliation inside find-or-create included.
C11_AtMostThreeAttempts ==
    [][\A o \in DOMAIN Tally(made, ops') : Tally(made, ops')[o] <= MaxAttempts]_vars


\* the issues a remote call of the step may be made on while source issue k is
\* processed: the destination issue with its key, or a placeholder created for it
Concerns(o, k, placeholders) ==
    CASE o.op \in {"create_issue", "users.get_all", "close"} -> TRUE
      [] o.op = "links.create" -> k \in {o.args[1], o.args[2]}
      [] o.op = "search_issues" -> o.args[1] = k
      [] OTHER -> o.args[1] \in {k} \cup placeholders

\* C12: the source issues are processed in ascending key order, one after the
\* other: every remote call of a step is made for the issue being processed, the
\* position in the list only moves forward by one, and once an issue's
\* processing has failed the run has failed for good and only the shutdown
\* follows: no remote call is made for that issue or any later one.
C12_OneIssueAtATime ==
    [][pc # "done" =>
        /\ \A i, j \in 1..Len(jira_issues') : i < j => jira_issues'[i] < jira_issues'[j]
        /\ idx' \in {idx, idx + 1}
        /\ idx' = idx + 1 => (result' = "running" /\ idx' <= Len(jira_issues'))
        /\ pc # "main" =>
              \A i \in 1..Len(ops') : Concerns(ops'[i], Cur, created'[Cur])
        /\ result = "failed" =>
              /\ pc = "closing" /\ pc' = "done"
              /\ ops' = << Op("close", <<>>) >>
              /\ result' = "failed" /\ idx' = idx
        /\ (result # "failed" /\ result' = "failed") => (pc' = "closing" /\ idx' = idx)]_vars

C12_Witness ==
    /\ pc = "done" /\ result = "failed"
    /\ run = 1
    /\ idx = 1 /\ Len(jira_issues) = 2
    /\ Target(Op("edit_issue", <<1>>)) \in DOMAIN made
    /\ made[Target(Op("edit_issue", <<1>>))] = MaxAttempts
    /\ ops = << Op("close", <<>>) >>


\* C13: when the destination answers a create-link call with 'already linked'
\* or 'not found', the call is not made again, nothing is linked, the run has
\* not failed and the issue's next link (or the next issue) follows; when the
\* call fails otherwise it is made again, and after the third failure the run
\* is aborted.
C13_ToleratedLinkFailures ==
    [][(pc = "links" /\ ops' # <<>>) =>
        LET task == Head(todo)
            absent == task.first \notin DOMAIN yt_issues \/ task.second \notin DOMAIN yt_issues
        IN /\ (~outage' /\ (absent \/ AlreadyLinked(task.first, task.second))) =>
                 /\ yt_links' = yt_links
                 /\ todo' = Tail(todo)
                 /\ result' # "failed"
                 /\ attempt' = 1
                 /\ IF todo' # <<>> THEN pc' = "links" /\ idx' = idx
                    ELSE IF idx < Len(jira_issues) THEN pc' = FirstPc /\ idx' = idx + 1
                    ELSE pc' = "closing" /\ result' = "ok"
           /\ outage' =>
                 /\ yt_links' = yt_links /\ todo' = todo
                 /\ IF attempt < MaxAttempts
                    THEN pc' = "links" /\ attempt' = attempt + 1 /\ result' = "running"
                    ELSE pc' = "closing" /\ result' = "failed" /\ error' = "TrackerError"]_vars

\* a link to an issue that the destination lacks was answered 'not found', and
\* the run has gone on to the next issue
C13_Witness ==
    /\ command = ESTABLISH_LINKS_ONLY
    /\ destination = "first_only"
    /\ result = "running"
    /\ pc = "epic_query" /\ idx = 2
    /\ yt_links = {}
    /\ ops = << Op("links.create", <<1, 2, "is dependent by">>) >>


\* C14: a run that has ended, with success or with an exception from the
\* source search or from an issue's processing, closes the destination client
\* next, and a run that is over has closed it exactly once, as its last call.
C14_ShutdownAlways ==
    /\ result # "running" => pc \in {"closing", "done"}
    /\ pc = "closing" => (closed = 0 /\ result # "running")
    /\ pc = "done" => (closed = 1 /\ result # "running" /\ ops = << Op("close", <<>>) >>)
    /\ pc \notin {"closing", "done"} => (closed = 0 /\ result = "running")

\* the source search has failed three times and the client has been closed
C14_Witness ==
    /\ pc = "done" /\ closed = 1
    /\ result = "failed" /\ error = "JIRAError"
    /\ jira_issues = <<>> /\ idx = 0
    /\ made[Target(Op("search_issues", <<starting_task, finish_task>>))] = MaxAttempts


C16_CreateOnlyOnNotFound ==
    pc = "create" =>
        /\ ops = << Op("get_issue", <<Cur>>) >>
        /\ yt_issue = NoIssue
        /\ ~outage


\* C17 as stated: whenever the create step leaves a new placeholder in the
\* destination, with or without an exception of the creation call, the next
\* step is the WIP status step on that placeholder.
C17_PlaceholderLabelled ==
    [][next_key' > next_key => (pc' = "wip" /\ yt_issue'.key = next_key)]_vars


\* the placeholders created for the current source issue in this run whose WIP
\* status was not set: the attempt that created them failed before
Unlabelled ==
    {c \in created[Cur] : yt_issues[c].status = NewYtIssue.status
                          /\ ~(pc = "wip" /\ yt_issue.key = c)}

\* C18 as stated: after an attempt has left a placeholder without its WIP
\* status, a SEARCH that is answered finds that placeholder, and no further
\* placeholder is created for the source issue.
C18_RecoveryFindsPlaceholder ==
    [][(Converging /\ result = "running" /\ pc \in {"search", "create"} /\ Unlabelled # {}) =>
          /\ (pc = "search" /\ ~outage') => (pc' = "reconcile" /\ yt_issue'.key \in Unlabelled)
          /\ next_key' = next_key]_vars

\* C18, amended: after an attempt has left the placeholder that carries the
\* source key without its WIP status, a SEARCH that is answered finds that
\* placeholder, and no further placeholder is created for the source issue
\* unless a status call on the found issue has answered 'not found'.
C18_RecoveryOnTheKey ==
    [][(Converging /\ result = "running" /\ pc \in {"search", "create"} /\ Cur \in Unlabelled) =>
          /\ (pc = "search" /\ ~outage') => (pc' = "reconcile" /\ yt_issue'.key = Cur)
          /\ ~misled' => next_key' = next_key]_vars

\* an attempt failed after the placeholder with the source key was created, and
\* the next SEARCH has found the placeholder
C18_Witness ==
    /\ Converging /\ result = "running" /\ pc = "reconcile" /\ attempt > 1
    /\ Cur \in Unlabelled /\ yt_issue.key = Cur /\ ~misled


\* the positions of the execute calls among the remote calls of a step
Executed(calls) == {i \in 1..Len(calls) : calls[i].op = "execute"}

\* change_status is about to run one attempt and the wanted status is known
StatusStep ==
    /\ result = "running" /\ pc \in {"reconcile", "wip"}
    /\ WantedStatus(JiraStatusArg, YtStatusArg).ok

\* C19 as stated: when the current status key of the destination issue differs
\* from the target status key, an attempt of the status operation executes no
\* transition but the available one named by the target, executes it exactly
\* once and returns when the tracker answers, and if no such transition is
\* available it raises without executing any transition.
C19_TransitionOnDifferentKey ==
    [][(StatusStep /\ yt_issue.status # WantedStatus(JiraStatusArg, YtStatusArg).value) =>
          LET w == WantedStatus(JiraStatusArg, YtStatusArg).value
              key == yt_issue.key
          IN IF \E s \in StatusKeys \ {yt_issues[key].status} : w = AppendMeta(s)
             THEN /\ \A i \in Executed(ops') : ops'[i] = Op("execute", <<key, w>>)
                  /\ Cardinality(Executed(ops')) <= 1
                  /\ ~outage' =>
                        /\ Cardinality(Executed(ops')) = 1
                        /\ AppendMeta(yt_issues'[key].status) = w
                        /\ pc' \in {"fill_common", "search"} /\ attempt' = 1
                           /\ result' = "running"
             ELSE /\ Executed(ops') = {}
                  /\ yt_issues' = yt_issues
                  /\ ~(pc' \in {"fill_common", "search"} /\ attempt' = 1
                       /\ result' = "running")]_vars

\* C19, amended: when the current status key of the destination issue with
\* "Meta" appended differs from the target status key, an attempt of the status
\* operation executes no transition but the available one named by the target,
\* executes it exactly once and returns when the tracker answers, and if no
\* such transition is available it raises without executing any transition.
C19_TransitionOnDifferentMeta ==
    [][(StatusStep
        /\ AppendMeta(yt_issue.status) # WantedStatus(JiraStatusArg, YtStatusArg).value) =>
          LET w == WantedStatus(JiraStatusArg, YtStatusArg).value
              key == yt_issue.key
          IN IF \E s \in StatusKeys \ {yt_issues[key].status} : w = AppendMeta(s)
             THEN /\ \A i \in Executed(ops') : ops'[i] = Op("execute", <<key, w>>)
                  /\ Cardinality(Executed(ops')) <= 1
                  /\ ~outage' =>
                        /\ Cardinality(Executed(ops')) = 1
                        /\ AppendMeta(yt_issues'[key].status) = w
                        /\ pc' \in {"fill_common", "search"} /\ attempt' = 1
                           /\ result' = "running"
             ELSE /\ Executed(ops') = {}
                  /\ yt_issues' = yt_issues
                  /\ ~(pc' \in {"fill_common", "search"} /\ attempt' = 1
                       /\ result' = "running")]_vars

\* the status operation has executed the transition named by the target on the
\* found issue and has returned
C19_Witness ==
    /\ Converging /\ result = "running" /\ pc = "fill_common" /\ ~outage
    /\ ops = << Op("get_transitions", <<Cur>>),
                Op("execute", <<Cur, AppendMeta(yt_issues[Cur].status)>>) >>

\* the status operation has found no transition named by the target and has
\* raised without executing one
C19_WitnessUnavailable ==
    /\ Converging /\ pc = "reconcile" /\ inner > 1 /\ ~outage
    /\ ops = << Op("get_transitions", <<Cur>>) >>
    /\ yt_issues[Cur].status = yt_issue.status


\* how many of the two status arguments of the call are set
Supplied(c) ==
    Cardinality({n \in {"jira_status_name", "yt_status_name"} : c[n] # None /\ c[n] # ""})

\* C20: a call of the status operation with both a source status and an
\* explicit target status, or with neither, raises ValueError without a mapping
\* lookup and without a remote call; a call with exactly one of them passes
\* the check and goes on to the lookup or the comparison of statuses.
C20_ExactlyOneStatus ==
    call.fn = "change_status" =>
        IF Supplied(call) # 1
        THEN /\ call.error = "ValueError"
             /\ call.lookups = <<>> /\ call.calls = <<>> /\ ops = <<>>
             /\ yt_issues[1].status = call.status
        ELSE /\ call.error # "ValueError"
             /\ (call.jira_status_name # None) = (call.lookups # <<>>)

\* a call with both arguments set has been rejected
C20_Witness ==
    /\ call.fn = "change_status"
    /\ call.jira_status_name = "Open" /\ call.yt_status_name = "closedMeta"
    /\ call.error = "ValueError" /\ call.attempts = MaxAttempts

\* a call with neither argument set has been rejected
C20_WitnessNeither ==
    /\ call.fn = "change_status"
    /\ call.jira_status_name = None /\ call.yt_status_name = None
    /\ call.error = "ValueError"

\* a call with exactly one argument set has executed a transition
C20_WitnessProceeds ==
    /\ call.fn = "change_status"
    /\ call.jira_status_name = None /\ call.yt_status_name = "closedMeta"
    /\ call.error = None /\ Len(call.calls) = 2


\* a step of the current issue's convergence in which the statement at pc has
\* completed: no attempt is repeated, no exception has left the run, and the
\* loop has not moved to the next issue
Completed ==
    /\ Converging /\ result = "running" /\ result' = "running"
    /\ pc \notin {"main", "closing", "done"}
    /\ idx' = idx /\ attempt' <= attempt /\ inner' <= inner

\* the order of the steps as stated: the statements that may follow p
StatedNext(p) ==
    CASE p = "search" -> {"reconcile", "create"}
      [] p = "reconcile" -> {"fill_common"}
      [] p = "create" -> {"wip"}
      [] p = "wip" -> {"fill_common"}
      [] p = "fill_common" -> {"fill_additional"}
      [] p = "fill_additional" -> {"comments"}
      [] p = "comments" -> {"attachments"}
      [] p = "attachments" -> {"delete_links"}
      [] p = "delete_links" -> {"epic_query"}
      [] OTHER -> {"links"}

\* the statements that work on the destination issue that has been obtained
FillSteps == {"fill_common", "fill_additional", "comments", "attachments", "delete_links"}

\* C21 as stated: in the convergence of an issue every completed step is
\* followed by the next step of SEARCH, FOUND -> RECONCILE_STATUS or NOT_FOUND
\* -> CREATE_PLACEHOLDER -> APPLY_WIP_STATUS, then from either branch directly
\* FILL_COMMON_FIELDS, FILL_CUSTOM_FIELDS, RESYNC_COMMENTS, RESYNC_ATTACHMENTS,
\* RESET_LINKS and the link creations.
C21_StatedOrder ==
    [][Completed => pc' \in StatedNext(pc)]_vars

\* C21, amended: the order is as stated, except that APPLY_WIP_STATUS is
\* followed by SEARCH again and only RECONCILE_STATUS leads on to
\* FILL_COMMON_FIELDS, and that RECONCILE_STATUS leads to CREATE_PLACEHOLDER when
\* its status calls have answered 'not found'; the fill, resync and reset
\* steps work on the destination issue found under the source key, and the
\* link creations of an issue start from an issue without links.
C21_ActualOrder ==
    /\ [][Completed =>
            pc' \in CASE pc = "wip" -> {"search"}
                      [] pc = "reconcile" ->
                           {"fill_common"} \cup (IF misled' THEN {"create"} ELSE {})
                      [] OTHER -> StatedNext(pc)]_vars
    /\ [](Converging /\ pc \in FillSteps =>
            yt_issue.key = Cur /\ Cur \in DOMAIN yt_issues)
    /\ [](Converging /\ pc = "epic_query" => LinksOf(Cur) = {})

\* the convergence of an issue that was created as a placeholder has reached
\* its link creations
C21_Witness ==
    /\ Converging /\ result = "running" /\ pc = "links"
    /\ Cur \in created[Cur] /\ ~misled /\ faults = 0


\* in the source, p is the parent of c: c is a subtask of p, an epic child of
\* p, or names p as its parent
ParentOf(p, c) ==
    /\ p \in DOMAIN jira /\ c \in DOMAIN jira
    /\ \/ c \in Range(jira[p].subtasks)
       \/ jira[c].epic = p
       \/ jira[c].parent = p

\* the hierarchical links the source asks for when issue k is processed
Hierarchical(k) ==
    Len(jira[k].subtasks) + (IF jira[k].parent # 0 THEN 1 ELSE 0)
        + (IF jira_issue_type_to_yt_issue_type(jira_to_yt_mapper, jira[k].issuetype).value = "epic"
           THEN Cardinality({c \in DOMAIN jira : c # k /\ jira[c].epic = k}) ELSE 0)

\* C22: every link creation made for a subtask of the issue, an epic child of
\* the issue or the issue's own parent names the parent first and the child
\* second, with the translation of 'epic' when the parent's translated type
\* is epic and of 'subtask' otherwise; one such creation is queued for every
\* subtask, epic child and parent of the issue.
C22_ParentIsFrom ==
    [][/\ (pc = "epic_query" /\ pc' = "links")
            => Len(todo') - Explicit(todo') = Hierarchical(Cur)
       /\ (pc = "links" /\ Head(todo).hierarchical /\ ops' # <<>>)
            => \E p, c \in DOMAIN jira :
                  /\ ParentOf(p, c) /\ Cur \in {p, c}
                  /\ ops' = << Op("links.create",
                       <<p, c,
                         jira_relationship_to_yt_relation(jira_to_yt_mapper,
                            IF jira_issue_type_to_yt_issue_type(
                                   jira_to_yt_mapper, jira[p].issuetype).value = "epic"
                            THEN "epic" ELSE "subtask").value>>) >>]_vars

\* the link to the issue's own parent, an epic, has been created from the
\* parent to the issue
C22_Witness ==
    /\ idx > 0
    /\ Cur = 2 /\ CurIssue.parent = 1 /\ ~outage
    /\ ops = << Op("links.create", <<1, 2, "is epic of">>) >>
    /\ Link(1, 2, "is epic of") \in yt_links

\* the link to a subtask has been created from the issue to the subtask
C22_WitnessSubtask ==
    /\ 1 \in DOMAIN jira
    /\ jira[1].subtasks = <<2>> /\ pc = FirstPc /\ idx = 2 /\ ~outage
    /\ ops = << Op("links.create", <<1, 2, "is parent task for">>) >>


\* C23 as stated: while the SEARCH/CREATE loop of a source issue is running,
\* the destination issue is there to be found or the queue can still assign
\* the source key, so that the loop ends with the issue obtained after at most
\* (source key - next key + 1) stored placeholders.
C23_KeyWithinReach ==
    (Converging /\ result = "running" /\ pc \in {"search", "create", "wip"} /\ ~misled) =>
        (Cur \in DOMAIN yt_issues \/ next_key <= Cur)


\* the destination relation for a source relation, None if the mapper has none
Label(type_of_relation) ==
    LET relationship == jira_relationship_to_yt_relation(jira_to_yt_mapper, type_of_relation)
    IN IF relationship.ok THEN relationship.value ELSE None

\* the destination relation of the hierarchical links below parent p
ParentLabel(p) ==
    LET type_of_issue == jira_issue_type_to_yt_issue_type(jira_to_yt_mapper, jira[p].issuetype)
    IN IF type_of_issue.ok /\ type_of_issue.value = "epic" THEN Label("epic")
       ELSE Label("subtask")

\* the translated links the source issue k has: its explicit links, its
\* subtasks, its parent
OwnLinks(k) ==
    {Link(k, l.outwardIssue, Label(l.type.outward)) :
        l \in {x \in Range(jira[k].issuelinks) : x.outwardIssue # 0}}
    \cup {Link(l.inwardIssue, k, Label(l.type.outward)) :
        l \in {x \in Range(jira[k].issuelinks) : x.outwardIssue = 0 /\ x.inwardIssue # 0}}
    \cup {Link(k, c, ParentLabel(k)) : c \in Range(jira[k].subtasks)}
    \cup {Link(p, k, ParentLabel(p)) : p \in {jira[k].parent} \ {0}}

\* the translated links from an epic k to the issues that name it as their epic
EpicLinks(k) ==
    {Link(k, c, Label("epic")) :
        c \in {x \in DOMAIN jira : x # k /\ jira[x].epic = k /\ ParentLabel(k) = Label("epic")}}

\* the links between issues of the range
Within(links, keys) == {l \in links : l.from \in keys /\ l.to \in keys}

\* the translated source link set restricted to the range
SourceLinks ==
    Within(UNION {OwnLinks(k) \cup EpicLinks(k) : k \in Range(jira_issues)}, Range(jira_issues))

\* C24 as stated: in a converge run, the delete-all-links step of an issue
\* removes a translated source link to a lower-keyed issue of the range only if
\* the issue's own link establishment creates that link again, and when the run
\* has succeeded the links of the destination between issues of the range are
\* the translated source links between issues of the range.
C24_LinksSurvive ==
    /\ [][(Converging /\ pc = "delete_links") =>
             \A l \in Within(SourceLinks \cap (yt_links \ yt_links'), Range(jira_issues)) :
                (\E k \in {l.from, l.to} : k < Cur) => l \in OwnLinks(Cur) \cup EpicLinks(Cur)]_vars
    /\ []((Converging /\ RunSucceeded) =>
             Within(yt_links, Range(jira_issues)) = SourceLinks)

====
